---------------------------- MODULE Spec2Model ----------------------------
(***************************************************************************)
(* Model of src/training/trainer.py: check_data_types, check_for_nan_inf,  *)
(* evaluate_model and train_model.                                         *)
(*                                                                         *)
(* The network, the optimizer and the metric functions are external; they  *)
(* are abstracted as follows.                                              *)
(*   - A model is a record [params, mode, device].  params is one integer  *)
(*     weight w and the forward pass of a sample x is mask * w * x, where  *)
(*     mask is 1 in inference mode and 0 or 1 in training mode (a          *)
(*     training-only layer such as dropout).                               *)
(*   - An optimizer step moves w by -1, 0 or +1 (the gradient is not       *)
(*     modelled), in place.                                                *)
(*   - A table is summarised by its dtype ("numeric", "object", or         *)
(*     "datetime64" for a dtype that is neither) and its content           *)
(*     ("finite", "nan", "inf").                                           *)
(*   - float("inf") is the integer Inf, larger than every metric value.    *)
(***************************************************************************)
EXTENDS Integers, Sequences, FiniteSets

\* ------------------------------------------------------------------ bounds
MaxEpochs == 3
MaxPatience == 2
MaxBatches == 2
MaxW == 3
MaxEvalCalls == 2

\* ------------------------------------------------------- program constants
Inf == 1000000
LogEvery == 10

\* ------------------------------------------------------------- input data
Dtypes == {"numeric", "object", "datetime64"}
Contents == {"finite", "nan", "inf"}
Tables == [dtype : Dtypes, content : Contents]
GoodTable == [dtype |-> "numeric", content |-> "finite"]

\* The values held by a finite numeric validation split (y = 2x) and by one
\* training mini-batch.
ValX == <<1, 3>>
ValY == <<2, 6>>
TrainX == <<1>>
TrainY == <<2>>

VARIABLES
    \* arguments of train_model / evaluate_model
    epochs, patience, numBatches, X_train, y_train, X_val, y_val,
    deviceArg, cudaAvail,
    \* the model object (shared with the caller)
    model,
    \* locals of train_model
    pc, err, device, epoch, batch, total_loss, avg_loss, val_result,
    best_val_loss, epochs_no_improve, early_stop, best_model_state, returned,
    \* observation of the run
    validatorRuns, optSteps, evalCalls, snapshots, decisions, lastStepParams,
    hist, progress, evalLog

args == <<epochs, patience, numBatches, X_train, y_train, X_val, y_val,
          deviceArg, cudaAvail>>
locals == <<device, epoch, batch, total_loss, avg_loss, val_result,
            best_val_loss, epochs_no_improve, early_stop, best_model_state,
            returned>>
observed == <<validatorRuns, optSteps, evalCalls, snapshots, decisions,
              lastStepParams, hist, progress, evalLog>>
vars == <<args, model, pc, err, locals, observed>>

\* ---------------------------------------------------------------- helpers
RECURSIVE SumSq(_, _, _, _)
\* sum over i <= n of (y[i] - k * x[i])^2
SumSq(x, y, k, n) ==
    IF n = 0 THEN 0
    ELSE (y[n] - k * x[n]) * (y[n] - k * x[n]) + SumSq(x, y, k, n - 1)

RECURSIVE Sum(_, _)
Sum(s, n) == IF n = 0 THEN 0 ELSE s[n] + Sum(s, n - 1)

\* np.sqrt, rounded down to an integer
Sqrt(n) == CHOOSE r \in 0..n : r * r <= n /\ (r + 1) * (r + 1) > n

\* Outputs a training-only layer can produce: identity in inference mode.
DropoutMasks(mode) == IF mode = "train" THEN {0, 1} ELSE {1}

InitModel == [params |-> 0, mode |-> "train", device |-> "cpu"]

\* ------------------------------------------------------------- Validator
\* check_data_types: the first failing test decides the message.
check_data_types(X, y) ==
    IF X.dtype = "object" THEN "NonNumericColumn"
    ELSE IF y.dtype = "object" THEN "NonNumericTarget"
    ELSE "ok"

\* check_for_nan_inf: missing values are tested before non-finite ones.
check_for_nan_inf(X, y) ==
    IF X.content = "nan" \/ y.content = "nan" THEN "NaNDetected"
    ELSE IF X.content = "inf" \/ y.content = "inf" THEN "InfDetected"
    ELSE "ok"

\* Mutant: the Validator applied to the validation split as well.
ValidatorAlsoVal(X, y) ==
    IF check_data_types(X, y) # "ok" THEN check_data_types(X, y)
    ELSE IF check_for_nan_inf(X, y) # "ok" THEN check_for_nan_inf(X, y)
    ELSE IF check_data_types(X_val, y_val) # "ok"
    THEN check_data_types(X_val, y_val)
    ELSE check_for_nan_inf(X_val, y_val)

\* train_model lines 86-87: types first, then NaN/Inf.
Validator(X, y) ==
    IF check_data_types(X, y) # "ok" THEN check_data_types(X, y)
    ELSE check_for_nan_inf(X, y)

\* The error kinds of the specification, by the message the code raises.
DataTypeError == {"NonNumericColumn", "NonNumericTarget"}
DataIntegrityError == {"NaNDetected", "InfDetected"}
NumericalInstabilityError == {"LossNaNInf"}

\* ------------------------------------------------------------- Evaluator
ResolveDevice(dev, cuda) ==
    IF dev = "none" THEN (IF cuda THEN "cuda" ELSE "cpu") ELSE dev

\* torch.FloatTensor(table.values): only a numeric array converts.
Converts(table) == table.dtype = "numeric"

\* Mutant: the model is left in the mode it came in.
SetEvalSkipped(m) == m

\* model.eval()
SetEval(m) == [m EXCEPT !.mode = "eval"]

\* Mutant: the mode is not set back to training.
SetTrainSkipped(m) == m

\* model.train()
SetTrain(m) == [m EXCEPT !.mode = "train"]

\* mean_squared_error, np.sqrt and r2_score of the predictions k * x.
\* R2 = 1 - SSres / SStot is kept as the pair <<SStot - SSres, SStot>>.
Metrics(k) ==
    LET n == Len(ValY)
        mean == Sum(ValY, n) \div n
        ssres == SumSq(ValX, ValY, k, n)
        sstot == SumSq(<<1, 1>>, ValY, mean, n)
        mse == ssres \div n
    IN [mse |-> mse, rmse |-> Sqrt(mse), r2 |-> <<sstot - ssres, sstot>>]

NoResult == [mse |-> 0, rmse |-> 0, r2 |-> <<0, 0>>]

\* evaluate_model(model, X_val, y_val, device): the set of its outcomes, each
\* the model it leaves, the error it raises ("ok": none) and its result.
evaluate_model(m, Xv, yv, dev, cuda) ==
    LET m1 == [m EXCEPT !.device = ResolveDevice(dev, cuda)]
        m2 == SetEval(m1)
    IN IF ~Converts(Xv) \/ ~Converts(yv)
       THEN {[model |-> m1, err |-> "TensorTypeError", result |-> NoResult]}
       ELSE IF Xv.content # "finite" \/ yv.content # "finite"
       THEN {[model |-> m2, err |-> "MetricInputError", result |-> NoResult]}
       ELSE {[model |-> m2, err |-> "ok", result |-> Metrics(mask * m2.params)]
                : mask \in DropoutMasks(m2.mode)}

\* --------------------------------------------------------------- Trainer
\* criterion(outputs, batch_y) on one mini-batch; .finite is FALSE when the
\* loss is NaN or Inf (the forward pass may overflow at any batch).
BatchLosses(m) ==
    {[finite |-> f,
      val |-> SumSq(TrainX, TrainY, mask * m.params, Len(TrainY)) \div Len(TrainY)]
        : f \in BOOLEAN, mask \in DropoutMasks(m.mode)}

\* optimizer.step(): updates the parameter tensors in place.
OptimizerStep(w) == {v \in {w - 1, w, w + 1} : v \in 0..MaxW}

\* model.state_dict(): a mapping onto the model's live parameter tensors: it
\* is a reference, not a copy, and reads whatever the model holds now.
StateDict(m) == [kind |-> "ref"]

Undefined == [kind |-> "undefined"]

\* The values read through a state_dict taken of model m.
Deref(sd, m) == m.params

\* model.load_state_dict(sd): copies the values read through sd into m.
LoadStateDict(m, sd) == [m EXCEPT !.params = Deref(sd, m)]

\* Mutant: a tie counts as an improvement.
ImprovesOrEqual(mse, best) == mse <= best

\* val_mse < best_val_loss
Improves(mse, best) == mse < best

\* epochs_no_improve >= patience
PatienceReached(count, pat) == count >= pat

\* epoch % 10 == 0 or epoch == epochs - 1 or early_stop
ShouldLog(e, n, es) == e % LogEvery = 0 \/ e = n - 1 \/ es

\* ------------------------------------------------------------------ Init
ValCases ==
    {<<GoodTable, GoodTable>>,
     <<[dtype |-> "object", content |-> "finite"], GoodTable>>,
     <<GoodTable, [dtype |-> "numeric", content |-> "nan"]>>,
     <<[dtype |-> "numeric", content |-> "inf"], GoodTable>>}

DeviceCases == {<<"none", TRUE>>, <<"none", FALSE>>, <<"cpu", TRUE>>}

InitLocals ==
    /\ err = "none"
    /\ device = "unset"
    /\ epoch = 0
    /\ batch = 0
    /\ total_loss = 0
    /\ avg_loss = 0
    /\ val_result = NoResult
    /\ best_val_loss = Inf
    /\ epochs_no_improve = 0
    /\ early_stop = FALSE
    /\ best_model_state = Undefined
    /\ returned = -1

InitObserved ==
    /\ validatorRuns = 0
    /\ optSteps = 0
    /\ evalCalls = 0
    /\ snapshots = 0
    /\ decisions = 0
    /\ lastStepParams = model.params
    /\ hist = <<>>
    /\ progress = {}
    /\ evalLog = <<>>

\* A call of train_model(model, X_train, y_train, X_val, y_val, epochs, ...,
\* patience, ..., device) on a freshly built model.
Init ==
    /\ epochs \in 0..MaxEpochs
    /\ patience \in 0..MaxPatience
    /\ numBatches \in 1..MaxBatches
    /\ X_train \in Tables
    /\ y_train \in Tables
    /\ \E vc \in ValCases : X_val = vc[1] /\ y_val = vc[2]
    /\ \E dc \in DeviceCases : deviceArg = dc[1] /\ cudaAvail = dc[2]
    /\ model = InitModel
    /\ pc = "start"
    /\ InitLocals
    /\ InitObserved

\* ------------------------------------------------------- train_model steps
Fail(e) ==
    /\ pc' = "error"
    /\ err' = e

\* lines 85-87
Validate ==
    /\ pc = "start"
    /\ validatorRuns' = validatorRuns + 1
    /\ IF Validator(X_train, y_train) = "ok"
       THEN pc' = "to_device" /\ err' = err
       ELSE Fail(Validator(X_train, y_train))
    /\ UNCHANGED <<args, model, locals, optSteps, evalCalls, snapshots,
                   decisions, lastStepParams, hist, progress, evalLog>>

\* lines 89-95
ToDevice ==
    /\ pc = "to_device"
    /\ device' = ResolveDevice(deviceArg, cudaAvail)
    /\ model' = [model EXCEPT !.device = ResolveDevice(deviceArg, cudaAvail)]
    /\ pc' = "tensors"
    /\ UNCHANGED <<args, err, epoch, batch, total_loss, avg_loss, val_result,
                   best_val_loss, epochs_no_improve, early_stop,
                   best_model_state, returned, observed>>

\* lines 97-117: tensors, loader, criterion, optimizer, early-stopping state
BuildTensors ==
    /\ pc = "tensors"
    /\ IF Converts(X_train) /\ Converts(y_train)
       THEN pc' = "loop" /\ err' = err
       ELSE Fail("TensorTypeError")
    /\ best_val_loss' = Inf
    /\ epochs_no_improve' = 0
    /\ early_stop' = FALSE
    /\ UNCHANGED <<args, model, device, epoch, batch, total_loss, avg_loss,
                   val_result, best_model_state, returned, observed>>

\* lines 120-122: the next epoch starts
EpochBegin ==
    /\ pc = "loop"
    /\ epoch < epochs
    /\ model' = SetTrain(model)
    /\ total_loss' = 0
    /\ batch' = 0
    /\ pc' = "batch"
    /\ UNCHANGED <<args, err, device, epoch, avg_loss, val_result,
                   best_val_loss, epochs_no_improve, early_stop,
                   best_model_state, returned, observed>>

\* line 120: range(epochs) is exhausted
LoopExhausted ==
    /\ pc = "loop"
    /\ epoch >= epochs
    /\ pc' = "restore"
    /\ UNCHANGED <<args, model, err, locals, observed>>

\* lines 123-133 with a finite loss: backward, optimizer step, accumulate
BatchStep ==
    /\ pc = "batch"
    /\ batch < numBatches
    /\ \E loss \in BatchLosses(model) :
          /\ loss.finite
          /\ total_loss' = total_loss + loss.val
    /\ \E v \in OptimizerStep(model.params) :
          /\ model' = [model EXCEPT !.params = v]
          /\ lastStepParams' = v
    /\ optSteps' = optSteps + 1
    /\ batch' = batch + 1
    /\ UNCHANGED <<args, pc, err, device, epoch, avg_loss, val_result,
                   best_val_loss, epochs_no_improve, early_stop,
                   best_model_state, returned, validatorRuns, evalCalls,
                   snapshots, decisions, hist, progress, evalLog>>

\* Mutant: the NaN/Inf loss is logged and the batch skipped.
BatchNaNLogged ==
    /\ pc = "batch"
    /\ batch < numBatches
    /\ \E loss \in BatchLosses(model) : ~loss.finite
    /\ err' = "LossNaNInf"
    /\ batch' = batch + 1
    /\ UNCHANGED <<args, model, pc, device, epoch, total_loss, avg_loss,
                   val_result, best_val_loss, epochs_no_improve, early_stop,
                   best_model_state, returned, observed>>

\* lines 123-130 with a NaN or Inf loss
BatchNaN ==
    /\ pc = "batch"
    /\ batch < numBatches
    /\ \E loss \in BatchLosses(model) : ~loss.finite
    /\ Fail("LossNaNInf")
    /\ UNCHANGED <<args, model, locals, observed>>

\* line 135
EpochLoss ==
    /\ pc = "batch"
    /\ batch = numBatches
    /\ avg_loss' = total_loss \div numBatches
    /\ pc' = "evaluate"
    /\ UNCHANGED <<args, model, err, device, epoch, batch, total_loss,
                   val_result, best_val_loss, epochs_no_improve, early_stop,
                   best_model_state, returned, observed>>

\* line 138
Evaluate ==
    /\ pc = "evaluate"
    /\ evalCalls' = evalCalls + 1
    /\ \E r \in evaluate_model(model, X_val, y_val, device, cudaAvail) :
          /\ model' = r.model
          /\ IF r.err = "ok"
             THEN /\ val_result' = r.result
                  /\ hist' = Append(hist, [val_mse |-> r.result.mse,
                                           params |-> model.params])
                  /\ pc' = "decide"
                  /\ err' = err
             ELSE /\ Fail(r.err)
                  /\ UNCHANGED <<val_result, hist>>
    /\ UNCHANGED <<args, device, epoch, batch, total_loss, avg_loss,
                   best_val_loss, epochs_no_improve, early_stop,
                   best_model_state, returned, validatorRuns, optSteps,
                   snapshots, decisions, lastStepParams, progress, evalLog>>

\* lines 141-160 and the loop's step to the next epoch
EarlyStopping ==
    /\ pc = "decide"
    /\ LET improved == Improves(val_result.mse, best_val_loss)
           count == IF improved THEN 0 ELSE epochs_no_improve + 1
           stop == PatienceReached(count, patience)
       IN /\ best_val_loss' = IF improved THEN val_result.mse ELSE best_val_loss
          /\ epochs_no_improve' = count
          /\ best_model_state' =
                IF improved THEN StateDict(model) ELSE best_model_state
          /\ snapshots' = IF improved THEN snapshots + 1 ELSE snapshots
          /\ decisions' = decisions + 1
          /\ IF stop
             THEN /\ early_stop' = TRUE
                  /\ pc' = "restore"
                  /\ UNCHANGED <<epoch, progress>>
             ELSE /\ early_stop' = early_stop
                  /\ progress' =
                        IF ShouldLog(epoch, epochs, early_stop)
                        THEN progress \cup {[epoch |-> epoch + 1,
                                             loss |-> avg_loss,
                                             val_mse |-> val_result.mse]}
                        ELSE progress
                  /\ epoch' = epoch + 1
                  /\ pc' = "loop"
    /\ UNCHANGED <<args, model, err, device, batch, total_loss, avg_loss,
                   val_result, returned, validatorRuns, optSteps, evalCalls,
                   lastStepParams, hist, evalLog>>

\* Mutant: without a snapshot the current state is returned.
RestoreUnguarded ==
    /\ pc = "restore"
    /\ model' = model
    /\ returned' = model.params
    /\ pc' = "returned"
    /\ UNCHANGED <<args, err, device, epoch, batch, total_loss, avg_loss,
                   val_result, best_val_loss, epochs_no_improve, early_stop,
                   best_model_state, observed>>

\* lines 162-165
Restore ==
    /\ pc = "restore"
    /\ IF best_model_state = Undefined
       THEN /\ Fail("UnboundLocalError")
            /\ UNCHANGED <<model, returned>>
       ELSE /\ model' = LoadStateDict(model, best_model_state)
            /\ returned' = Deref(StateDict(model), LoadStateDict(model, best_model_state))
            /\ pc' = "returned"
            /\ err' = err
    /\ UNCHANGED <<args, device, epoch, batch, total_loss, avg_loss,
                   val_result, best_val_loss, epochs_no_improve, early_stop,
                   best_model_state, observed>>

Next ==
    \/ Validate
    \/ ToDevice
    \/ BuildTensors
    \/ EpochBegin
    \/ LoopExhausted
    \/ BatchStep
    \/ BatchNaN
    \/ EpochLoss
    \/ Evaluate
    \/ EarlyStopping
    \/ Restore

Spec == Init /\ [][Next]_vars

\* --------------------------------------------- evaluate_model called alone
\* A caller holding a model in any state calls evaluate_model repeatedly on
\* the same data.
InitEval ==
    /\ epochs = 0
    /\ patience = 0
    /\ numBatches = 1
    /\ X_train = GoodTable
    /\ y_train = GoodTable
    /\ \E vc \in ValCases : X_val = vc[1] /\ y_val = vc[2]
    /\ \E dc \in DeviceCases \cup {<<"cuda", TRUE>>} :
          deviceArg = dc[1] /\ cudaAvail = dc[2]
    /\ model \in [params : 0..MaxW, mode : {"train", "eval"},
                  device : {"cpu", "cuda"}]
    /\ pc = "caller"
    /\ InitLocals
    /\ InitObserved

EvaluateCall ==
    /\ pc = "caller"
    /\ Len(evalLog) < MaxEvalCalls
    /\ \E r \in evaluate_model(model, X_val, y_val, deviceArg, cudaAvail) :
          /\ model' = r.model
          /\ evalLog' = Append(evalLog, [before |-> model, after |-> r.model,
                                         err |-> r.err, result |-> r.result])
    /\ evalCalls' = evalCalls + 1
    /\ UNCHANGED <<args, pc, err, locals, validatorRuns, optSteps, snapshots,
                   decisions, lastStepParams, hist, progress>>

NextEval == EvaluateCall

SpecEval == InitEval /\ [][NextEval]_vars

\* ================================================================ claims
TrainInvalid ==
    \/ X_train.dtype # "numeric" \/ y_train.dtype # "numeric"
    \/ X_train.content # "finite" \/ y_train.content # "finite"

TrainNonNumeric == X_train.dtype # "numeric" \/ y_train.dtype # "numeric"

ValInvalid ==
    \/ X_val.dtype # "numeric" \/ y_val.dtype # "numeric"
    \/ X_val.content # "finite" \/ y_val.content # "finite"

\* The loop has been left (by exhausting the epochs or by early stop).
LoopLeft ==
    \/ pc \in {"restore", "returned"}
    \/ pc = "error" /\ err = "UnboundLocalError"

\* Lowest validation MSE among the first k recorded epochs (Inf when k = 0).
RECURSIVE BestOf(_, _)
BestOf(h, k) ==
    IF k = 0 THEN Inf
    ELSE IF h[k].val_mse < BestOf(h, k - 1) THEN h[k].val_mse
    ELSE BestOf(h, k - 1)

\* Consecutive epochs without a strict improvement, after k epochs.
RECURSIVE NoImprove(_, _)
NoImprove(h, k) ==
    IF k = 0 THEN 0
    ELSE IF h[k].val_mse < BestOf(h, k - 1) THEN 0
    ELSE NoImprove(h, k - 1) + 1

\* The earliest epoch with the lowest recorded validation MSE.
BestEpoch(h) ==
    CHOOSE i \in 1..Len(h) :
        /\ \A j \in 1..Len(h) : h[i].val_mse <= h[j].val_mse
        /\ \A j \in 1..(i - 1) : h[j].val_mse > h[i].val_mse

Min(a, b) == IF a < b THEN a ELSE b

\* C1: every run with epochs >= 1 that returns leaves in the model, and
\* returns, the parameters the model had at the end of the earliest epoch
\* with the lowest recorded validation MSE.
C1_ReturnsBestEpochParams ==
    (pc = "returned" /\ epochs >= 1) =>
        /\ returned = hist[BestEpoch(hist)].params
        /\ model.params = hist[BestEpoch(hist)].params

\* C2: at most `epochs` epochs run; the loop is left at the end of the first
\* epoch at which the count of consecutive epochs without a strict
\* improvement reaches patience (a tie is no improvement); if the validation
\* MSE never improves after the first epoch, exactly min(epochs, 1 + patience)
\* epochs run.
C2_StopsAtPatience ==
    /\ Len(hist) <= epochs
    /\ pc \in {"loop", "batch", "evaluate"} =>
          \A k \in 1..Len(hist) : NoImprove(hist, k) < patience
    /\ (LoopLeft /\ epochs >= 1) =>
          /\ Len(hist) >= 1
          /\ \A k \in 1..(Len(hist) - 1) : NoImprove(hist, k) < patience
          /\ Len(hist) = epochs \/ NoImprove(hist, Len(hist)) >= patience
          /\ (\A k \in 2..Len(hist) : hist[k].val_mse >= hist[1].val_mse)
                => Len(hist) = Min(epochs, 1 + patience)

C2_Witness ==
    /\ pc = "returned"
    /\ early_stop
    /\ patience = 2
    /\ Len(hist) = 3
    /\ hist[2].val_mse = hist[1].val_mse
    /\ hist[3].val_mse > hist[1].val_mse

\* C3: invalid training data (a non-numeric column, a missing or a
\* non-finite value) never gets past the Validator; the error that reaches
\* the caller is the validation error, the type error when both apply, and
\* no optimizer step, Evaluator call or snapshot has happened and the model
\* is untouched.
C3_InvalidTrainingDataRejected ==
    TrainInvalid =>
        /\ pc \in {"start", "error"}
        /\ pc = "error" =>
              /\ err \in DataTypeError \cup DataIntegrityError
              /\ TrainNonNumeric => err \in DataTypeError
              /\ optSteps = 0 /\ evalCalls = 0 /\ snapshots = 0
              /\ model = InitModel

\* C4: a NaN or Inf mini-batch loss aborts the run at once: no optimizer
\* step for that batch, no later batch or epoch, no Evaluator call for that
\* epoch, no retry, no restore; the model keeps the parameters left by the
\* last completed optimizer step.
C4_NaNLossAborts ==
    err = "LossNaNInf" =>
        /\ pc = "error"
        /\ batch < numBatches
        /\ optSteps = epoch * numBatches + batch
        /\ evalCalls = epoch
        /\ decisions = epoch
        /\ Len(hist) = epoch
        /\ returned = -1
        /\ model.params = lastStepParams
        /\ model.mode = "train"

C4_Witness ==
    /\ pc = "error"
    /\ err = "LossNaNInf"
    /\ epoch = 1
    /\ batch = 1
    /\ snapshots = 1
    /\ model.params # hist[1].params

\* C5: a progress record is emitted for every completed epoch whose
\* zero-based index is a multiple of 10, for the final epoch, and for the
\* epoch at which early stopping is triggered.
C5_ProgressRecords ==
    LoopLeft =>
        \A e \in 0..(Len(hist) - 1) :
            (e % LogEvery = 0 \/ e = epochs - 1
                \/ (early_stop /\ e = Len(hist) - 1))
            => \E r \in progress : r.epoch = e + 1

\* C6: evaluate_model leaves the model's parameters as they were, changes
\* at most the mode (to inference) and the device placement, and two calls
\* with the same model and data return the same (MSE, RMSE, R2).
C6_EvaluatorFrame ==
    /\ \A i \in 1..Len(evalLog) :
          /\ evalLog[i].after.params = evalLog[i].before.params
          /\ evalLog[i].after.mode \in {evalLog[i].before.mode, "eval"}
          /\ evalLog[i].after.device = ResolveDevice(deviceArg, cudaAvail)
    /\ \A i, j \in 1..Len(evalLog) :
          (evalLog[i].err = "ok" /\ evalLog[j].err = "ok")
          => evalLog[i].result = evalLog[j].result

C6_Witness ==
    /\ Len(evalLog) = 2
    /\ evalLog[1].err = "ok"
    /\ evalLog[2].err = "ok"
    /\ evalLog[1].before.mode = "train"
    /\ evalLog[1].before.params = 1
    /\ evalLog[1].before.device # evalLog[1].after.device
    /\ evalLog[1].result.mse > 0

\* C7: whenever the restore step is reached a best-state snapshot exists: at
\* least one epoch has run and the first one took the improvement branch.
C7_SnapshotExistsAtRestore ==
    pc = "restore" =>
        /\ best_model_state # Undefined
        /\ Len(hist) >= 1
        /\ snapshots >= 1

\* C8: with epochs = 0 on valid data no epoch, optimizer step, Evaluator
\* call or snapshot happens and nothing is returned: the run fails at the
\* restore step with the undefined-best-state error, none of the three
\* documented kinds.
C8_ZeroEpochsFailsAtRestore ==
    (epochs = 0 /\ ~TrainInvalid) =>
        /\ pc \in {"start", "to_device", "tensors", "loop", "restore", "error"}
        /\ optSteps = 0 /\ evalCalls = 0 /\ snapshots = 0 /\ decisions = 0
        /\ hist = <<>>
        /\ best_model_state = Undefined
        /\ returned = -1
        /\ pc = "error" =>
              /\ err = "UnboundLocalError"
              /\ err \notin DataTypeError \cup DataIntegrityError
                                \cup NumericalInstabilityError

C8_Witness ==
    /\ epochs = 0
    /\ ~TrainInvalid
    /\ pc = "error"
    /\ err = "UnboundLocalError"

\* C9: the Validator runs exactly once, before the model, the device or the
\* optimizer is touched; every optimizer step is taken in training mode;
\* the Evaluator is called exactly once per epoch, after the epoch's last
\* optimizer step and before its early-stopping decision.
C9_OrderOfSteps ==
    /\ validatorRuns = (IF pc = "start" THEN 0 ELSE 1)
    /\ validatorRuns = 0 =>
          model = InitModel /\ device = "unset" /\ optSteps = 0
    /\ pc = "batch" => model.mode = "train"
    /\ pc \in {"loop", "batch"} =>
          evalCalls = epoch /\ decisions = epoch
    /\ pc = "batch" => optSteps = epoch * numBatches + batch
    /\ pc = "evaluate" =>
          /\ optSteps = (epoch + 1) * numBatches
          /\ evalCalls = epoch /\ decisions = epoch
    /\ pc = "decide" =>
          /\ optSteps = (epoch + 1) * numBatches
          /\ evalCalls = epoch + 1 /\ decisions = epoch
    /\ LoopLeft => evalCalls = Len(hist) /\ decisions = Len(hist)

C9_Witness ==
    /\ pc = "batch"
    /\ epoch = 1
    /\ batch = 1
    /\ evalCalls = 1
    /\ model.mode = "train"

\* C10: the Validator sees the training split only: an invalid validation
\* split is not rejected before training, and every optimizer step of the
\* first epoch has run when the validation data is first used.
C10_ValidationSplitUnchecked ==
    /\ (ValInvalid /\ ~TrainInvalid) =>
          /\ err \notin DataTypeError \cup DataIntegrityError
          /\ (pc = "error" /\ err \in {"TensorTypeError", "MetricInputError"}) =>
                evalCalls = 1 /\ optSteps = numBatches
    /\ evalCalls >= 1 => optSteps >= numBatches

C10_Witness ==
    /\ ValInvalid
    /\ pc = "error"
    /\ err = "MetricInputError"
    /\ numBatches = 2
    /\ optSteps = 2
    /\ evalCalls = 1
=============================================================================
